---- MODULE Spec2Model ----
(***************************************************************************)
(* Model of germanturkce.py: a Leitner-box vocabulary trainer.             *)
(*                                                                         *)
(* Text is modelled as a sequence of one-character strings, so that        *)
(* normalisation, the similarity ratio and the translation parser are      *)
(* computed character by character as the Python code computes them.       *)
(* Ratios are kept as exact fractions [n, d] (difflib computes             *)
(* 2.0 * matches / length); comparisons cross-multiply.                    *)
(***************************************************************************)
EXTENDS Integers, Sequences, FiniteSets, TLC

(***************************************************************************)
(* Bounds of the model.                                                    *)
(***************************************************************************)
MaxCands == 2
MaxWords == 2
MaxDays == 1
MaxOps == 3
MaxReviewOps == 4
CountSlack == 3
MaxSimLen == 3
MaxParseLen == 4

(***************************************************************************)
(* Program constants.                                                      *)
(***************************************************************************)
\* LEITNER_INTERVALS_DAYS = {1: 0, 2: 1, 3: 3, 4: 7, 5: 14}
LEITNER_INTERVALS_DAYS == [b \in 1..5 |-> CASE b = 1 -> 0 [] b = 2 -> 1 [] b = 3 -> 3
                                             [] b = 4 -> 7 [] OTHER -> 14]

\* FUZZY_THRESHOLD = 0.88
FUZZY_THRESHOLD == [n |-> 88, d |-> 100]

(***************************************************************************)
(* Fractions.                                                              *)
(***************************************************************************)
Zero == [n |-> 0, d |-> 1]
One  == [n |-> 1, d |-> 1]
RatGE(x, y) == x.n * y.d >= y.n * x.d
RatGT(x, y) == x.n * y.d >  y.n * x.d
RatEQ(x, y) == x.n * y.d =  y.n * x.d

(***************************************************************************)
(* Characters and the str methods the program uses.                        *)
(***************************************************************************)
IsSpace(ch) == ch \in {" ", "\t"}

\* str.lower() on the letters of the model's alphabet
Lower(ch) ==
    CASE ch = "A" -> "a" [] ch = "D" -> "d" [] ch = "E" -> "e" [] ch = "G" -> "g"
      [] ch = "N" -> "n" [] ch = "Z" -> "z" [] ch = "Ä" -> "ä"
      [] OTHER -> ch

LowerStr(s) == [i \in 1..Len(s) |-> Lower(s[i])]

RECURSIVE LStrip(_)
LStrip(s) == IF s # <<>> /\ IsSpace(Head(s)) THEN LStrip(Tail(s)) ELSE s

RECURSIVE RStrip(_)
RStrip(s) == IF s # <<>> /\ IsSpace(s[Len(s)])
             THEN RStrip(SubSeq(s, 1, Len(s) - 1)) ELSE s

\* str.strip()
Strip(s) == RStrip(LStrip(s))

\* re.sub(r"\s+", " ", s)
RECURSIVE CollapseWs(_)
CollapseWs(s) ==
    IF s = <<>> THEN <<>>
    ELSE IF IsSpace(Head(s))
         THEN <<" ">> \o CollapseWs(LStrip(s))
         ELSE <<Head(s)>> \o CollapseWs(Tail(s))

\* .replace("ß","ss").replace("ä","ae").replace("ö","oe").replace("ü","ue")
RECURSIVE FoldUmlauts(_)
FoldUmlauts(s) ==
    IF s = <<>> THEN <<>>
    ELSE (CASE Head(s) = "ß" -> <<"s", "s">>
            [] Head(s) = "ä" -> <<"a", "e">>
            [] Head(s) = "ö" -> <<"o", "e">>
            [] Head(s) = "ü" -> <<"u", "e">>
            [] OTHER -> <<Head(s)>>) \o FoldUmlauts(Tail(s))

tr_normalize(s) == CollapseWs(LowerStr(Strip(s)))
de_normalize(s) == FoldUmlauts(tr_normalize(s))

(***************************************************************************)
(* difflib.SequenceMatcher(None, a, b).ratio(): no junk, and autojunk      *)
(* only acts on sequences of 200 or more elements.                         *)
(***************************************************************************)
\* length of the common prefix of a[i..] and b[j..]
RECURSIVE CommonLen(_, _, _, _)
CommonLen(a, b, i, j) ==
    IF i <= Len(a) /\ j <= Len(b) /\ a[i] = b[j]
    THEN 1 + CommonLen(a, b, i + 1, j + 1) ELSE 0

\* find_longest_match: the longest block, of those the one starting earliest
\* in a, and of those the one starting earliest in b
LongestMatch(a, b) ==
    LET P == (1..Len(a)) \X (1..Len(b))
        FirstJ(K, kmax, imin) ==
            [i |-> imin,
             j |-> CHOOSE j \in 1..Len(b) :
                     /\ K[<<imin, j>>] = kmax
                     /\ \A j2 \in 1..(j - 1) : K[<<imin, j2>>] < kmax,
             k |-> kmax]
        FirstI(K, kmax) ==
            FirstJ(K, kmax,
                   CHOOSE i \in 1..Len(a) :
                     /\ \E j \in 1..Len(b) : K[<<i, j>>] = kmax
                     /\ \A i2 \in 1..(i - 1) :
                          \A j \in 1..Len(b) : K[<<i2, j>>] < kmax)
        Longest(K) ==
            FirstI(K, CHOOSE k \in {K[p] : p \in P} : \A q \in P : K[q] <= k)
    IN Longest([p \in P |-> CommonLen(a, b, p[1], p[2])])

\* get_matching_blocks: the longest block, then the same to its left and right
RECURSIVE Matches(_, _)
Matches(a, b) ==
    IF a = <<>> \/ b = <<>> THEN 0
    ELSE LET Blocks(m) ==
                 IF m.k = 0 THEN 0
                 ELSE m.k + Matches(SubSeq(a, 1, m.i - 1), SubSeq(b, 1, m.j - 1))
                          + Matches(SubSeq(a, m.i + m.k, Len(a)),
                                    SubSeq(b, m.j + m.k, Len(b)))
         IN Blocks(LongestMatch(a, b))

similarity(a, b) ==
    IF Len(a) + Len(b) = 0 THEN One
    ELSE [n |-> 2 * Matches(a, b), d |-> Len(a) + Len(b)]

(***************************************************************************)
(* is_close_enough(user, correct, lang) -> (ok, sim)                       *)
(***************************************************************************)
\* mutants of is_close_enough: the length test comes before the equality
\* test; the threshold is 0.87
is_close_enough_ShortFirst(user, correct, lang) ==
    LET Normalize(s) == IF lang = "de" THEN de_normalize(s) ELSE tr_normalize(s)
        Fuzzy(sim) == [ok |-> RatGE(sim, FUZZY_THRESHOLD), sim |-> sim]
        Compare(u, c) ==
            IF u = <<>> \/ c = <<>> THEN [ok |-> FALSE, sim |-> Zero]
            ELSE IF Len(u) <= 3 \/ Len(c) <= 3
                 THEN [ok |-> FALSE, sim |-> similarity(u, c)]
            ELSE IF u = c THEN [ok |-> TRUE, sim |-> One]
            ELSE Fuzzy(similarity(u, c))
    IN Compare(Normalize(user), Normalize(correct))

is_close_enough_Threshold87(user, correct, lang) ==
    LET Normalize(s) == IF lang = "de" THEN de_normalize(s) ELSE tr_normalize(s)
        Fuzzy(sim) == [ok |-> RatGE(sim, [n |-> 87, d |-> 100]), sim |-> sim]
        Compare(u, c) ==
            IF u = <<>> \/ c = <<>> THEN [ok |-> FALSE, sim |-> Zero]
            ELSE IF u = c THEN [ok |-> TRUE, sim |-> One]
            ELSE IF Len(u) <= 3 \/ Len(c) <= 3
                 THEN [ok |-> FALSE, sim |-> similarity(u, c)]
            ELSE Fuzzy(similarity(u, c))
    IN Compare(Normalize(user), Normalize(correct))

is_close_enough(user, correct, lang) ==
    LET Normalize(s) == IF lang = "de" THEN de_normalize(s) ELSE tr_normalize(s)
        Fuzzy(sim) == [ok |-> RatGE(sim, FUZZY_THRESHOLD), sim |-> sim]
        Compare(u, c) ==
            IF u = <<>> \/ c = <<>> THEN [ok |-> FALSE, sim |-> Zero]
            ELSE IF u = c THEN [ok |-> TRUE, sim |-> One]
            ELSE IF Len(u) <= 3 \/ Len(c) <= 3
                 THEN [ok |-> FALSE, sim |-> similarity(u, c)]
            ELSE Fuzzy(similarity(u, c))
    IN Compare(Normalize(user), Normalize(correct))

(***************************************************************************)
(* play_question, the grading loop over correct_list (best_sim,            *)
(* best_target, matched) and the exact flag of the matched branch.         *)
(* best_target is None or a string: a sequence of at most one string.      *)
(***************************************************************************)
\* mutants of the loop: a later candidate of equal similarity replaces the
\* best one; the loop breaks before it records the accepted candidate
RECURSIVE GradeFrom_LastWins(_, _, _, _, _, _)
GradeFrom_LastWins(user_answer, correct_list, lang, k, best_sim, best_target) ==
    IF k > Len(correct_list)
    THEN [matched |-> FALSE, best_sim |-> best_sim, best_target |-> best_target]
    ELSE LET Step(ok, bs, bt) ==
                 IF ok
                 THEN [matched |-> TRUE, best_sim |-> bs, best_target |-> bt]
                 ELSE GradeFrom_LastWins(user_answer, correct_list, lang, k + 1, bs, bt)
             Best(r, up) == Step(r.ok, IF up THEN r.sim ELSE best_sim,
                                 IF up THEN <<correct_list[k]>> ELSE best_target)
             Candidate(r) == Best(r, RatGE(r.sim, best_sim))
         IN Candidate(is_close_enough(user_answer, correct_list[k], lang))

RECURSIVE GradeFrom_BreakFirst(_, _, _, _, _, _)
GradeFrom_BreakFirst(user_answer, correct_list, lang, k, best_sim, best_target) ==
    IF k > Len(correct_list)
    THEN [matched |-> FALSE, best_sim |-> best_sim, best_target |-> best_target]
    ELSE LET Step(ok, bs, bt) ==
                 IF ok
                 THEN [matched |-> TRUE, best_sim |-> best_sim,
                       best_target |-> best_target]
                 ELSE GradeFrom_BreakFirst(user_answer, correct_list, lang, k + 1,
                                           bs, bt)
             Best(r, up) == Step(r.ok, IF up THEN r.sim ELSE best_sim,
                                 IF up THEN <<correct_list[k]>> ELSE best_target)
             Candidate(r) == Best(r, RatGT(r.sim, best_sim))
         IN Candidate(is_close_enough(user_answer, correct_list[k], lang))

RECURSIVE GradeFrom(_, _, _, _, _, _)
GradeFrom(user_answer, correct_list, lang, k, best_sim, best_target) ==
    IF k > Len(correct_list)
    THEN [matched |-> FALSE, best_sim |-> best_sim, best_target |-> best_target]
    ELSE LET Step(ok, bs, bt) ==
                 IF ok
                 THEN [matched |-> TRUE, best_sim |-> bs, best_target |-> bt]
                 ELSE GradeFrom(user_answer, correct_list, lang, k + 1, bs, bt)
             Best(r, up) == Step(r.ok, IF up THEN r.sim ELSE best_sim,
                                 IF up THEN <<correct_list[k]>> ELSE best_target)
             Candidate(r) == Best(r, RatGT(r.sim, best_sim))
         IN Candidate(is_close_enough(user_answer, correct_list[k], lang))

GradeLoop(user_answer, correct_list, lang) ==
    GradeFrom(user_answer, correct_list, lang, 1, Zero, <<>>)

\* best_target or ""
OrEmpty(t) == IF t = <<>> THEN <<>> ELSE t[1]

IsExact(user_answer, best_target, lang) ==
    \/ lang = "de" /\ de_normalize(user_answer) = de_normalize(OrEmpty(best_target))
    \/ lang = "tr" /\ tr_normalize(user_answer) = tr_normalize(OrEmpty(best_target))

(***************************************************************************)
(* parse_translations(raw): split on runs of ; , / then strip, drop the    *)
(* empty pieces, and keep the first piece of each tr_normalize key.        *)
(***************************************************************************)
IsSep(ch) == ch \in {";", ",", "/"}

RECURSIVE SkipSeps(_)
SkipSeps(s) == IF s # <<>> /\ IsSep(Head(s)) THEN SkipSeps(Tail(s)) ELSE s

\* re.split(r"[;,/]+", raw): cur is the piece being read
RECURSIVE SplitFrom(_, _)
SplitFrom(s, cur) ==
    IF s = <<>> THEN <<cur>>
    ELSE IF IsSep(Head(s)) THEN <<cur>> \o SplitFrom(SkipSeps(s), <<>>)
    ELSE SplitFrom(Tail(s), Append(cur, Head(s)))

RECURSIVE StripNonEmpty(_)
StripNonEmpty(parts) ==
    IF parts = <<>> THEN <<>>
    ELSE LET Keep(p) == IF p # <<>> THEN <<p>> ELSE <<>>
         IN Keep(Strip(Head(parts))) \o StripNonEmpty(Tail(parts))

\* mutant of Uniq: the key of a piece is the piece as typed
RECURSIVE Uniq_ExactKey(_, _)
Uniq_ExactKey(out, seen) ==
    IF out = <<>> THEN <<>>
    ELSE LET Once(key) ==
                 IF key \notin seen
                 THEN <<Head(out)>> \o Uniq_ExactKey(Tail(out), seen \cup {key})
                 ELSE Uniq_ExactKey(Tail(out), seen)
         IN Once(Head(out))

RECURSIVE Uniq(_, _)
Uniq(out, seen) ==
    IF out = <<>> THEN <<>>
    ELSE LET Once(key) ==
                 IF key \notin seen
                 THEN <<Head(out)>> \o Uniq(Tail(out), seen \cup {key})
                 ELSE Uniq(Tail(out), seen)
         IN Once(tr_normalize(Head(out)))

parse_translations(raw) == Uniq(StripNonEmpty(SplitFrom(raw, <<>>)), {})

(***************************************************************************)
(* State.                                                                  *)
(*   words        the words table: id -> row (columns german, box,         *)
(*                correct_count, wrong_count, updated_at, last_seen_at,    *)
(*                next_due_at; example, notes and created_at are not       *)
(*                read by any decision and are left out)                   *)
(*   translations the translations table in id order: rows                 *)
(*                [word_id, turkish]                                       *)
(*   nextId       the AUTOINCREMENT counter of words                       *)
(*   now          the clock, datetime.utcnow() in whole seconds            *)
(*   game         session["game"] of each browser session, or NoGame       *)
(*   req          the play_question request each session has in flight     *)
(*   out          what the last handler that finished reported             *)
(*   nops         events so far: store handlers, games started, answers    *)
(*                submitted, days passed (it bounds the run)               *)
(*   gUser, gCands, gLang, gRes   the grading specification's inputs and   *)
(*                result                                                   *)
(***************************************************************************)
VARIABLES words, translations, nextId, now, game, req, out, nops,
          gUser, gCands, gLang, gRes

mvars  == <<words, translations, nextId, now, game, req, out, nops>>
gvars  == <<gUser, gCands, gLang, gRes>>
vars   == <<words, translations, nextId, now, game, req, out, nops,
            gUser, gCands, gLang, gRes>>

\* last_seen_at TEXT (nullable): NULL
NULL == -1

\* dt.timedelta(days=days), in seconds
SecondsPerDay == 86400

Sessions == {"s1", "s2"}

\* one more event: a handler call that writes, or a day passing
WriteOp == nops' = nops + 1

Min(a, b) == IF a <= b THEN a ELSE b
Max(a, b) == IF a >= b THEN a ELSE b

(***************************************************************************)
(* The clock. now_utc_iso() and add_days_iso() each read it; between two   *)
(* reads of one handler it may have moved on by a second.                  *)
(***************************************************************************)
ClockOK(t) == t \div SecondsPerDay <= MaxDays

Skews == {0, 1}

\* add_days_iso(days), read at time t
add_days_iso(t, days) == t + days * SecondsPerDay

\* schedule_next(box), read at time t
schedule_next(t, box) ==
    add_days_iso(t, IF box \in DOMAIN LEITNER_INTERVALS_DAYS
                    THEN LEITNER_INTERVALS_DAYS[box] ELSE 0)

Tick(d) ==
    /\ ClockOK(now + d)
    /\ now' = now + d
    /\ WriteOp
    /\ UNCHANGED <<words, translations, nextId, game, req, out>>
    /\ UNCHANGED gvars

(***************************************************************************)
(* The translations table: UNIQUE(word_id, turkish) on the exact text, and *)
(* FOREIGN KEY(word_id) REFERENCES words(id) ON DELETE CASCADE with        *)
(* PRAGMA foreign_keys = ON. An INSERT that breaks either raises           *)
(* sqlite3.IntegrityError.                                                 *)
(***************************************************************************)
IntegrityError(tbl, ids, word_id, turkish) ==
    \/ word_id \notin ids
    \/ \E k \in 1..Len(tbl) : tbl[k].word_id = word_id /\ tbl[k].turkish = turkish

\* for t in trs: try INSERT except IntegrityError: pass
RECURSIVE InsertAll(_, _, _, _)
InsertAll(tbl, ids, word_id, trs) ==
    IF trs = <<>> THEN tbl
    ELSE InsertAll(IF IntegrityError(tbl, ids, word_id, Head(trs)) THEN tbl
                   ELSE Append(tbl, [word_id |-> word_id, turkish |-> Head(trs)]),
                   ids, word_id, Tail(trs))

RECURSIVE DeleteOf(_, _)
DeleteOf(tbl, word_id) ==
    IF tbl = <<>> THEN <<>>
    ELSE (IF Head(tbl).word_id = word_id THEN <<>> ELSE <<Head(tbl)>>)
         \o DeleteOf(Tail(tbl), word_id)

\* get_translations(word_id): SELECT turkish ... ORDER BY id ASC
RECURSIVE get_translations(_, _)
get_translations(tbl, word_id) ==
    IF tbl = <<>> THEN <<>>
    ELSE (IF Head(tbl).word_id = word_id THEN <<Head(tbl).turkish>> ELSE <<>>)
         \o get_translations(Tail(tbl), word_id)

StripAll(trs) == [k \in 1..Len(trs) |-> Strip(trs[k])]

(***************************************************************************)
(* Inputs of the store's handlers.                                         *)
(***************************************************************************)
gehen == <<"g","e","h","e","n">>
gehn  == <<"g","e","h","n">>
da    == <<"d","a">>

GermanInputs  == {gehen, <<" ">>}
TurkishInputs == {da, <<"D","a",";","d","a">>, <<";">>}
WordIdInputs  == 1..MaxWords

Row(german, box, cc, wc, upd, seen, due) ==
    [german |-> german, box |-> box, correct_count |-> cc, wrong_count |-> wc,
     updated_at |-> upd, last_seen_at |-> seen, next_due_at |-> due]

(***************************************************************************)
(* add(): parse_translations, then create_word(german, trs, ...).          *)
(* d is how far the clock moved between now_utc_iso() and schedule_next(). *)
(***************************************************************************)
create_word(german_raw, trs, d) ==
    LET german == Strip(german_raw)
        ts     == now
        id     == nextId
    IN IF german = <<>>
       THEN /\ out' = [op |-> "add", ok |-> FALSE, error |-> "Almanca bos olamaz."]
            /\ UNCHANGED <<words, translations, nextId, now>>
       ELSE IF trs = <<>>
       THEN /\ out' = [op |-> "add", ok |-> FALSE,
                       error |-> "En az bir Turkce karsilik gir."]
            /\ UNCHANGED <<words, translations, nextId, now>>
       ELSE /\ id <= MaxWords
            /\ ClockOK(now + d)
            /\ words' = [w \in DOMAIN words \cup {id} |->
                           IF w = id
                           THEN Row(german, 1, 0, 0, ts, NULL, schedule_next(now + d, 1))
                           ELSE words[w]]
            /\ translations' = InsertAll(translations, DOMAIN words \cup {id}, id,
                                         StripAll(trs))
            /\ nextId' = id + 1
            /\ now' = now + d
            /\ out' = [op |-> "add", ok |-> TRUE, word_id |-> id]

Add(german_raw, turkish_raw, d) ==
    /\ create_word(german_raw, parse_translations(turkish_raw), d)
    /\ UNCHANGED <<game, req>>
    /\ WriteOp
    /\ UNCHANGED gvars

(***************************************************************************)
(* edit(word_id) with POST: the handler's SELECT, then update_word().      *)
(***************************************************************************)
\* mutant of update_word: the translations are deleted before the
\* translation field is looked at
update_word_DeletesFirst(word_id, german_raw, translations_raw) ==
    LET german == Strip(german_raw)
        trs    == parse_translations(translations_raw)
        ts     == now
    IN IF german = <<>>
       THEN /\ out' = [op |-> "edit", ok |-> FALSE, error |-> "Almanca bos olamaz."]
            /\ UNCHANGED <<words, translations>>
       ELSE IF trs = <<>>
       THEN /\ out' = [op |-> "edit", ok |-> FALSE,
                       error |-> "En az bir Turkce karsilik gerekli."]
            /\ translations' = DeleteOf(translations, word_id)
            /\ UNCHANGED words
       ELSE IF word_id \notin DOMAIN words
       THEN /\ out' = [op |-> "edit", ok |-> FALSE, error |-> "Kelime bulunamadi."]
            /\ UNCHANGED <<words, translations>>
       ELSE /\ words' = [words EXCEPT ![word_id].german = german,
                                      ![word_id].updated_at = ts]
            /\ translations' = InsertAll(DeleteOf(translations, word_id),
                                         DOMAIN words, word_id, trs)
            /\ out' = [op |-> "edit", ok |-> TRUE, word_id |-> word_id]

update_word(word_id, german_raw, translations_raw) ==
    LET german == Strip(german_raw)
        trs    == parse_translations(translations_raw)
        ts     == now
    IN IF german = <<>>
       THEN /\ out' = [op |-> "edit", ok |-> FALSE, error |-> "Almanca bos olamaz."]
            /\ UNCHANGED <<words, translations>>
       ELSE IF trs = <<>>
       THEN /\ out' = [op |-> "edit", ok |-> FALSE,
                       error |-> "En az bir Turkce karsilik gerekli."]
            /\ UNCHANGED <<words, translations>>
       ELSE IF word_id \notin DOMAIN words
       THEN /\ out' = [op |-> "edit", ok |-> FALSE, error |-> "Kelime bulunamadi."]
            /\ UNCHANGED <<words, translations>>
       ELSE /\ words' = [words EXCEPT ![word_id].german = german,
                                      ![word_id].updated_at = ts]
            /\ translations' = InsertAll(DeleteOf(translations, word_id),
                                         DOMAIN words, word_id, trs)
            /\ out' = [op |-> "edit", ok |-> TRUE, word_id |-> word_id]

Edit(word_id, german_raw, translations_raw) ==
    /\ IF word_id \notin DOMAIN words
       THEN /\ out' = [op |-> "edit", ok |-> FALSE, error |-> "Kelime bulunamadi."]
            /\ UNCHANGED <<words, translations>>
       ELSE update_word(word_id, german_raw, translations_raw)
    /\ UNCHANGED <<nextId, now, game, req>>
    /\ WriteOp
    /\ UNCHANGED gvars

(***************************************************************************)
(* words() with POST: action "delete" and action "add_tr".                 *)
(***************************************************************************)
\* mutant of delete_word: the translations of the word stay
delete_word_NoCascade(word_id) ==
    /\ words' = [w \in DOMAIN words \ {word_id} |-> words[w]]
    /\ translations' = translations

delete_word(word_id) ==
    /\ words' = [w \in DOMAIN words \ {word_id} |-> words[w]]
    /\ translations' = DeleteOf(translations, word_id)

Delete(word_id) ==
    /\ delete_word(word_id)
    /\ out' = [op |-> "delete", ok |-> TRUE, word_id |-> word_id]
    /\ UNCHANGED <<nextId, now, game, req>>
    /\ WriteOp
    /\ UNCHANGED gvars

add_translation(word_id, turkish) ==
    LET trs == parse_translations(turkish)
    IN translations' = IF trs = <<>> THEN translations
                       ELSE InsertAll(translations, DOMAIN words, word_id, trs)

AddTr(word_id, turkish) ==
    /\ add_translation(word_id, turkish)
    /\ out' = [op |-> "add_tr", ok |-> TRUE, word_id |-> word_id]
    /\ UNCHANGED <<words, nextId, now, game, req>>
    /\ WriteOp
    /\ UNCHANGED gvars

(***************************************************************************)
(* Queries of the game.                                                    *)
(***************************************************************************)
InjSeqs(S, n) == {q \in [1..n -> S] : \A i, j \in 1..n : i # j => q[i] # q[j]}

\* mutant of get_due_words: no ORDER BY
get_due_words_Unordered(limit, t) ==
    LET due == {w \in DOMAIN words : words[w].next_due_at <= t}
    IN InjSeqs(due, Min(limit, Cardinality(due)))

\* get_due_words(limit) at time t: WHERE next_due_at <= t ORDER BY next_due_at
\* ASC LIMIT limit. Rows of equal next_due_at come in any order.
get_due_words(limit, t) ==
    LET due == {w \in DOMAIN words : words[w].next_due_at <= t}
        n   == Min(limit, Cardinality(due))
    IN {q \in InjSeqs(due, n) :
          /\ \A i, j \in 1..n :
                i < j => words[q[i]].next_due_at <= words[q[j]].next_due_at
          /\ \A w \in due \ {q[i] : i \in 1..n} :
                \A i \in 1..n : words[q[i]].next_due_at <= words[w].next_due_at}

\* get_random_words(limit): ORDER BY RANDOM() LIMIT limit
get_random_words(limit) ==
    InjSeqs(DOMAIN words, Min(limit, Cardinality(DOMAIN words)))

(***************************************************************************)
(* update_after_answer(word_id, was_correct, current_box). d is how far    *)
(* the clock moved between now_utc_iso() and schedule_next(). The UPDATE   *)
(* changes no row when the word is gone.                                   *)
(***************************************************************************)
\* mutants of NewBox: a wrong answer steps one box down; box 5 is no ceiling
NewBox_StepDown(was_correct, current_box) ==
    IF was_correct THEN Min(5, current_box + 1) ELSE Max(1, current_box - 1)

NewBox_NoCeiling(was_correct, current_box) ==
    IF was_correct THEN current_box + 1 ELSE 1

\* new_box = min(5, current_box + 1) if was_correct else 1
NewBox(was_correct, current_box) ==
    IF was_correct THEN Min(5, current_box + 1) ELSE 1

\* mutant of ReviewedRow: the wrong branch counts the answer as correct, too
ReviewedRow_OneCounter(row, was_correct, new_box, ts, due) ==
    [row EXCEPT !.box = new_box, !.correct_count = @ + 1,
                !.updated_at = ts, !.last_seen_at = ts, !.next_due_at = due]

\* the two UPDATE statements
ReviewedRow(row, was_correct, new_box, ts, due) ==
    IF was_correct
    THEN [row EXCEPT !.box = new_box, !.correct_count = @ + 1,
                     !.updated_at = ts, !.last_seen_at = ts, !.next_due_at = due]
    ELSE [row EXCEPT !.box = new_box, !.wrong_count = @ + 1,
                     !.updated_at = ts, !.last_seen_at = ts, !.next_due_at = due]

\* mutant of update_after_answer: UPDATE ... WHERE box = current_box
update_after_answer_ByBox(word_id, was_correct, current_box, d) ==
    LET new_box == NewBox(was_correct, current_box)
        ts      == now
        due     == schedule_next(now + d, new_box)
    IN /\ ClockOK(now + d)
       /\ now' = now + d
       /\ words' = [w \in DOMAIN words |->
                      IF words[w].box = current_box
                      THEN ReviewedRow(words[w], was_correct, new_box, ts, due)
                      ELSE words[w]]

update_after_answer(word_id, was_correct, current_box, d) ==
    LET new_box == NewBox(was_correct, current_box)
        ts      == now
        due     == schedule_next(now + d, new_box)
    IN /\ ClockOK(now + d)
       /\ now' = now + d
       /\ words' = IF word_id \in DOMAIN words
                   THEN [words EXCEPT
                           ![word_id] = ReviewedRow(@, was_correct, new_box, ts, due)]
                   ELSE words

(***************************************************************************)
(* The game kept in the browser session.                                   *)
(***************************************************************************)
NoGame == [active |-> FALSE]

Modes == {"de->tr", "tr->de", "mixed"}
Pools == {"due", "random"}

\* the form field n: a number, or text int() rejects
NotANumber == [num |-> FALSE]
Num(v) == [num |-> TRUE, v |-> v]
NInputs == {NotANumber, Num(0), Num(101)}

\* mutant of ClampN: no upper limit
ClampN_NoCeiling(n) == IF n.num THEN Max(1, n.v) ELSE 15

\* n_int = max(1, min(100, int(n))), except: n_int = 15
ClampN(n) == IF n.num THEN Max(1, Min(100, n.v)) ELSE 15

\* mutant of start_game: a run started over a run keeps that run's score
start_game_KeepsScore(s, mode, pool, n) ==
    \E ids \in (IF pool = "due" THEN get_due_words(n, now) ELSE get_random_words(n)) :
        game' = [game EXCEPT ![s] =
                   [active |-> TRUE, mode |-> mode, pool |-> pool, queue |-> ids,
                    idx |-> 0, score |-> IF @.active THEN @.score ELSE 0,
                    total |-> Len(ids), last_feedback |-> "None"]]

\* start_game(mode, pool, n) in session s
start_game(s, mode, pool, n) ==
    \E ids \in (IF pool = "due" THEN get_due_words(n, now) ELSE get_random_words(n)) :
        game' = [game EXCEPT ![s] =
                   [active |-> TRUE, mode |-> mode, pool |-> pool, queue |-> ids,
                    idx |-> 0, score |-> 0, total |-> Len(ids),
                    last_feedback |-> "None"]]

\* play_setup() with POST
PlaySetup(s, pool, mode, n) ==
    /\ req[s].pc = "idle"
    /\ WriteOp
    /\ start_game(s, mode, pool, ClampN(n))
    /\ out' = [op |-> "play_setup", s |-> s, resp |-> "redirect_question"]
    /\ UNCHANGED <<words, translations, nextId, now, req>>
    /\ UNCHANGED gvars

\* get_current_word(): None (<<>>) or the row of queue[idx], with its id
get_current_word(s) ==
    LET g == game[s]
    IN IF ~g.active THEN <<>>
       ELSE IF g.idx >= Len(g.queue) THEN <<>>
       ELSE LET word_id == g.queue[g.idx + 1]
            IN IF word_id \in DOMAIN words
               THEN <<[id |-> word_id, row |-> words[word_id]]>>
               ELSE <<>>

\* mutant of advance_game: every answer scores
advance_game_AlwaysScores(g, was_correct) ==
    IF ~g.active THEN g
    ELSE [g EXCEPT !.score = @ + 1, !.idx = @ + 1]

\* mutant of advance_game: an accepted answer moves the score, any other
\* answer the index
advance_game_ScoreOrIndex(g, was_correct) ==
    IF ~g.active THEN g
    ELSE IF was_correct THEN [g EXCEPT !.score = @ + 1]
    ELSE [g EXCEPT !.idx = @ + 1]

\* advance_game(was_correct) on the session's game g
advance_game(g, was_correct) ==
    IF ~g.active THEN g
    ELSE [g EXCEPT !.score = IF was_correct THEN @ + 1 ELSE @, !.idx = @ + 1]

(***************************************************************************)
(* play_question(). A GET reads and renders. A POST reads (the game, the   *)
(* current word, its translations, the form), grades, and then writes      *)
(* with update_after_answer() in a transaction of its own: requests of     *)
(* other sessions may run between the reads and the write. A browser       *)
(* session has one request in flight at a time.                            *)
(***************************************************************************)
Idle == [pc |-> "idle"]

AnswerInputs == {<<>>, <<" ">>, gehn, da}

Dirs(s) == IF game[s].mode = "mixed" THEN {"de->tr", "tr->de"}
           ELSE IF game[s].mode = "de->tr" THEN {"de->tr"} ELSE {"tr->de"}

\* correct_list and answer_lang of a direction
CorrectList(dir, w) ==
    IF dir = "de->tr" THEN get_translations(translations, w.id) ELSE <<w.row.german>>

AnswerLang(dir) == IF dir = "de->tr" THEN "tr" ELSE "de"

\* mutant of Verdict: no pass branch, a blank answer is graded like any other
Verdict_NoPass(answer, correct_list, answer_lang) ==
    LET grade == GradeLoop(Strip(answer), correct_list, answer_lang)
    IN IF grade.matched THEN [kind |-> "ok", was_correct |-> TRUE]
       ELSE [kind |-> "bad", was_correct |-> FALSE]

\* the verdict on request.form["answer"]: the pass branch, or the grading loop
Verdict(answer, correct_list, answer_lang) ==
    LET user_answer == Strip(answer)
        grade == GradeLoop(user_answer, correct_list, answer_lang)
    IN IF user_answer = <<>> THEN [kind |-> "warn", was_correct |-> FALSE]
       ELSE IF grade.matched THEN [kind |-> "ok", was_correct |-> TRUE]
       ELSE [kind |-> "bad", was_correct |-> FALSE]

\* mutant of PQ_Redirect: a run with no current word is sent back to the setup
PQ_Redirect_ToSetup(s) ==
    /\ req[s].pc = "idle"
    /\ \/ ~game[s].active
       \/ get_current_word(s) = <<>>
    /\ out' = [op |-> "play_question", s |-> s, resp |-> "redirect_setup"]
    /\ UNCHANGED <<words, translations, nextId, now, game, req, nops>>
    /\ UNCHANGED gvars

\* mutant of PQ_Redirect: a run at the end of its queue is sent back to the
\* question
PQ_Redirect_Again(s) ==
    /\ req[s].pc = "idle"
    /\ get_current_word(s) = <<>>
    /\ out' = [op |-> "play_question", s |-> s,
               resp |-> IF ~game[s].active THEN "redirect_setup"
                        ELSE "redirect_question"]
    /\ UNCHANGED <<words, translations, nextId, now, game, req, nops>>
    /\ UNCHANGED gvars

\* what every request does first: no game, or no current word
PQ_Redirect(s) ==
    /\ req[s].pc = "idle"
    /\ \/ ~game[s].active
       \/ get_current_word(s) = <<>>
    /\ out' = [op |-> "play_question", s |-> s,
               resp |-> IF ~game[s].active THEN "redirect_setup" ELSE "redirect_done"]
    /\ UNCHANGED <<words, translations, nextId, now, game, req, nops>>
    /\ UNCHANGED gvars

\* GET: render the question in direction dir
PQ_Get(s, dir) ==
    /\ req[s].pc = "idle"
    /\ game[s].active
    /\ get_current_word(s) # <<>>
    /\ dir \in Dirs(s)
    /\ out' = [op |-> "play_question", s |-> s, resp |-> "page", dir |-> dir]
    /\ UNCHANGED <<words, translations, nextId, now, game, req, nops>>
    /\ UNCHANGED gvars

\* POST, up to the verdict
PQ_Read(s, answer, dir) ==
    /\ req[s].pc = "idle"
    /\ game[s].active
    /\ get_current_word(s) # <<>>
    /\ dir \in Dirs(s)
    /\ LET w == get_current_word(s)[1]
           v == Verdict(answer, CorrectList(dir, w), AnswerLang(dir))
       IN req' = [req EXCEPT ![s] = [pc |-> "post", word_id |-> w.id,
                                     box |-> w.row.box, dir |-> dir,
                                     answer |-> answer,
                                     kind |-> v.kind, was_correct |-> v.was_correct]]
    /\ WriteOp
    /\ UNCHANGED <<words, translations, nextId, now, game, out>>
    /\ UNCHANGED gvars

\* POST, from update_after_answer on: last_feedback, advance_game, redirect
PQ_Submit(s, d) ==
    /\ req[s].pc = "post"
    /\ LET r == req[s]
       IN /\ update_after_answer(r.word_id, r.was_correct, r.box, d)
          /\ game' = [game EXCEPT ![s] =
                        advance_game([@ EXCEPT !.last_feedback = r.kind],
                                     r.was_correct)]
          /\ out' = [op |-> "play_question", s |-> s, resp |-> "redirect_question",
                     kind |-> r.kind, dir |-> r.dir]
    /\ req' = [req EXCEPT ![s] = Idle]
    /\ UNCHANGED <<translations, nextId, nops>>
    /\ UNCHANGED gvars

\* mutant of PlayDone: the run is reported and kept
PlayDone_KeepsGame(s) ==
    /\ req[s].pc = "idle"
    /\ IF ~game[s].active
       THEN out' = [op |-> "play_done", s |-> s, resp |-> "redirect_setup"]
       ELSE out' = [op |-> "play_done", s |-> s, resp |-> "done",
                    score |-> game[s].score, total |-> game[s].total]
    /\ UNCHANGED <<words, translations, nextId, now, game, req, nops>>
    /\ UNCHANGED gvars

\* mutant of PlayDone: the items left in the queue are counted as wrong
PlayDone_FailsRest(s) ==
    /\ req[s].pc = "idle"
    /\ IF ~game[s].active
       THEN /\ out' = [op |-> "play_done", s |-> s, resp |-> "redirect_setup"]
            /\ UNCHANGED <<game, words>>
       ELSE /\ out' = [op |-> "play_done", s |-> s, resp |-> "done",
                       score |-> game[s].score, total |-> game[s].total]
            /\ game' = [game EXCEPT ![s] = NoGame]
            /\ words' = [w \in DOMAIN words |->
                           IF \E i \in (game[s].idx + 1)..Len(game[s].queue) :
                                 game[s].queue[i] = w
                           THEN [words[w] EXCEPT !.box = 1, !.wrong_count = @ + 1]
                           ELSE words[w]]
    /\ UNCHANGED <<translations, nextId, now, req, nops>>
    /\ UNCHANGED gvars

\* play_done()
PlayDone(s) ==
    /\ req[s].pc = "idle"
    /\ IF ~game[s].active
       THEN /\ out' = [op |-> "play_done", s |-> s, resp |-> "redirect_setup"]
            /\ UNCHANGED game
       ELSE /\ out' = [op |-> "play_done", s |-> s, resp |-> "done",
                       score |-> game[s].score, total |-> game[s].total]
            /\ game' = [game EXCEPT ![s] = NoGame]
    /\ UNCHANGED <<words, translations, nextId, now, req, nops>>
    /\ UNCHANGED gvars

(***************************************************************************)
(* The system: a database holding one word that has been reviewed up to    *)
(* box b, and no game.                                                     *)
(***************************************************************************)
\* the row of a word created at time 0 and answered correctly b - 1 times
InitRow(b) ==
    Row(gehen, b, b - 1, 0, 0, IF b = 1 THEN NULL ELSE 0, schedule_next(0, b))

NotGraded == [kind |-> "none"]

GradeIdle ==
    /\ gUser = <<>>
    /\ gCands = <<>>
    /\ gLang = "de"
    /\ gRes = NotGraded

\* no game, no request, the clock at 0
SessionsInit ==
    /\ nextId = 2
    /\ now = 0
    /\ game = [s \in Sessions |-> NoGame]
    /\ req = [s \in Sessions |-> Idle]
    /\ out = [op |-> "init"]
    /\ nops = 0

SystemInit ==
    /\ words = [w \in {1} |-> InitRow(1)]
    /\ translations = <<[word_id |-> 1, turkish |-> da]>>
    /\ SessionsInit

\* the word is new, or has been answered up to the last box
InitBoxes == {1, 5}

Init ==
    /\ \E b \in InitBoxes : words = [w \in {1} |-> InitRow(b)]
    /\ translations = <<[word_id |-> 1, turkish |-> da]>>
    /\ SessionsInit
    /\ GradeIdle

TickInputs == {SecondsPerDay}

\* fewer than n events so far
Budget(n) == nops < n

Next ==
    \/ \E g \in GermanInputs, t \in TurkishInputs : Budget(MaxOps) /\ Add(g, t, 0)
    \/ \E w \in WordIdInputs, g \in GermanInputs, t \in TurkishInputs :
          Budget(MaxOps) /\ Edit(w, g, t)
    \/ \E w \in WordIdInputs : Budget(MaxOps) /\ Delete(w)
    \/ \E w \in WordIdInputs, t \in TurkishInputs : Budget(MaxOps) /\ AddTr(w, t)
    \/ \E s \in Sessions, p \in Pools, m \in Modes, n \in NInputs :
          Budget(MaxOps) /\ PlaySetup(s, p, m, n)
    \/ \E s \in Sessions, a \in AnswerInputs, dir \in {"de->tr", "tr->de"} :
          Budget(MaxOps) /\ PQ_Read(s, a, dir)
    \/ \E d \in TickInputs : Budget(MaxOps) /\ Tick(d)
    \/ \E s \in Sessions : PQ_Submit(s, 0)
    \/ \E s \in Sessions : PQ_Redirect(s)
    \/ \E s \in Sessions, dir \in {"de->tr", "tr->de"} : PQ_Get(s, dir)
    \/ \E s \in Sessions : PlayDone(s)

Spec == Init /\ [][Next]_vars

(***************************************************************************)
(* The review specification: two sessions play on a database that holds    *)
(* one word, in any box, with its translation or (a word migrated from     *)
(* the old schema with a blank turkish column) with none. The clock may    *)
(* move inside update_after_answer.                                        *)
(***************************************************************************)
ReviewInit ==
    /\ \E b \in 1..5 : words = [w \in {1} |-> InitRow(b)]
    /\ translations \in {<<>>, <<[word_id |-> 1, turkish |-> da]>>}
    /\ SessionsInit
    /\ GradeIdle

ReviewNext ==
    \/ \E s \in Sessions, p \in Pools, m \in Modes, n \in NInputs :
          Budget(MaxReviewOps) /\ PlaySetup(s, p, m, n)
    \/ \E s \in Sessions, a \in AnswerInputs, dir \in {"de->tr", "tr->de"} :
          Budget(MaxReviewOps) /\ PQ_Read(s, a, dir)
    \/ \E s \in Sessions, d \in Skews : PQ_Submit(s, d)
    \/ \E s \in Sessions : PlayDone(s)

SpecReview == ReviewInit /\ [][ReviewNext]_vars

(***************************************************************************)
(* Inputs of the grading specification: stored texts, and answers typed    *)
(* for them with one slip.                                                 *)
(***************************************************************************)
Vocab == { <<"g","e","h","e","n">>, <<"g","r","o","ß">>, <<"g","r","o","s","s">>,
           <<"Z","u">>, <<"d","a">>, <<"a","r","b","e","i","t","e","n">> }

DropAt(s, i)      == SubSeq(s, 1, i - 1) \o SubSeq(s, i + 1, Len(s))
ChangeAt(s, i, c) == SubSeq(s, 1, i - 1) \o <<c>> \o SubSeq(s, i + 1, Len(s))
InsertAt(s, i, c) == SubSeq(s, 1, i - 1) \o <<c>> \o SubSeq(s, i, Len(s))

\* a key dropped, d hit in place of a key, the first letter G, a space put
\* before or after
Typos(s) == {DropAt(s, i) : i \in 1..Len(s)}
            \cup {ChangeAt(s, i, "d") : i \in 1..Len(s)}
            \cup {ChangeAt(s, 1, "G"), InsertAt(s, 1, " "), InsertAt(s, Len(s) + 1, " ")}

Answers == Vocab \cup UNION {Typos(w) : w \in Vocab}

Langs == {"de", "tr"}

GradeInit ==
    /\ SystemInit
    /\ gUser \in Answers
    /\ gLang \in Langs
    /\ gCands = <<>>
    /\ gRes = NotGraded

AddCandidate(c) ==
    /\ gRes = NotGraded
    /\ Len(gCands) < MaxCands
    /\ gCands' = Append(gCands, c)
    /\ UNCHANGED <<gUser, gLang, gRes>>
    /\ UNCHANGED mvars

\* one call of is_close_enough on the answer and the k-th candidate
CloseEnough(k) ==
    /\ gRes = NotGraded
    /\ LET r == is_close_enough(gUser, gCands[k], gLang)
       IN gRes' = [kind |-> "close", k |-> k, ok |-> r.ok, sim |-> r.sim]
    /\ UNCHANGED <<gUser, gCands, gLang>>
    /\ UNCHANGED mvars

\* the grading loop of play_question on an answer that is not blank
GradeAnswer ==
    /\ gRes = NotGraded
    /\ Strip(gUser) # <<>>
    /\ LET r == GradeLoop(Strip(gUser), gCands, gLang)
       IN gRes' = [kind |-> "grade", matched |-> r.matched, best_sim |-> r.best_sim,
                   best_target |-> r.best_target,
                   exact |-> IsExact(Strip(gUser), r.best_target, gLang)]
    /\ UNCHANGED <<gUser, gCands, gLang>>
    /\ UNCHANGED mvars

GradeNext ==
    \/ \E c \in Vocab : AddCandidate(c)
    \/ \E k \in 1..Len(gCands) : CloseEnough(k)
    \/ GradeAnswer

SpecGrade == GradeInit /\ [][GradeNext]_vars

(***************************************************************************)
(* The count field of play_setup: every number from below 1 to above 100,  *)
(* and text that is not a number.                                          *)
(***************************************************************************)
CountInputs ==
    {NotANumber} \cup {Num(v) : v \in (0 - CountSlack)..(100 + CountSlack)}

\* the try/except of play_setup on the form field n
ReadCount(n) ==
    /\ gRes = NotGraded
    /\ gRes' = [kind |-> "count", n |-> n, n_int |-> ClampN(n)]
    /\ UNCHANGED <<gUser, gCands, gLang>>
    /\ UNCHANGED mvars

CountInit == SystemInit /\ GradeIdle

CountNext == \E n \in CountInputs : ReadCount(n)

SpecCount == CountInit /\ [][CountNext]_vars

(***************************************************************************)
(* Inputs of similarity: every text of up to MaxSimLen letters out of      *)
(* three, in both orders.                                                  *)
(***************************************************************************)
SimLetters == {"a", "d", "e"}

SimStrings == UNION {[1..n -> SimLetters] : n \in 0..MaxSimLen}

SimInit ==
    /\ SystemInit
    /\ gUser \in SimStrings
    /\ gCands \in {<<c>> : c \in SimStrings}
    /\ gLang = "de"
    /\ gRes = NotGraded

\* similarity(a, b), similarity(b, a) and similarity(a, a)
Similarity ==
    /\ gRes = NotGraded
    /\ gRes' = [kind |-> "sim", ab |-> similarity(gUser, gCands[1]),
                ba |-> similarity(gCands[1], gUser),
                aa |-> similarity(gUser, gUser)]
    /\ UNCHANGED <<gUser, gCands, gLang>>
    /\ UNCHANGED mvars

SimNext == Similarity

SpecSim == SimInit /\ [][SimNext]_vars

(***************************************************************************)
(* Inputs of parse_translations: every text of up to MaxParseLen           *)
(* characters out of a letter in both cases, a blank and two separators,   *)
(* and two longer fields.                                                  *)
(***************************************************************************)
ParseChars == {"a", "A", " ", ";", "/"}

\* the letters g with breve and dotless i, lower-case letters outside the
\* character set of the module text
GBreve   == "g(breve)"
DotlessI == "i(dotless)"

\* 'elma, elma agaci; elma', agaci spelt with g with breve and dotless i
ElmaField ==
    <<"e","l","m","a",","," ","e","l","m","a"," ","a",GBreve,"a","c",DotlessI,";",
      " ","e","l","m","a">>

\* 'a  a,A a/; a'
SpacedField == <<"a"," "," ","a",",","A"," ","a","/",";"," ","a">>

ParseInputs ==
    UNION {[1..n -> ParseChars] : n \in 0..MaxParseLen}
       \cup {ElmaField, SpacedField}

ParseInit ==
    /\ SystemInit
    /\ gUser \in ParseInputs
    /\ gCands = <<>>
    /\ gLang = "tr"
    /\ gRes = NotGraded

\* parse_translations(raw)
Parse ==
    /\ gRes = NotGraded
    /\ gRes' = [kind |-> "parse", out |-> parse_translations(gUser)]
    /\ UNCHANGED <<gUser, gCands, gLang>>
    /\ UNCHANGED mvars

ParseNext == Parse

SpecParse == ParseInit /\ [][ParseNext]_vars

(***************************************************************************)
(* Properties of the scheduler.                                            *)
(***************************************************************************)
\* session s's POST completes: update_after_answer has run
Submits(s) == req[s].pc = "post" /\ req'[s].pc = "idle"

\* ... and its UPDATE found the row
Reviews(s) == Submits(s) /\ req[s].word_id \in DOMAIN words

\* C1: a review called with current box b in 1..5 leaves the item in box
\* min(5, b + 1) when the verdict is correct and in box 1 when it is not,
\* whatever b is.
C1_BoxTransition ==
    [][\A s \in Sessions :
          Reviews(s) /\ req[s].box \in 1..5 =>
             words'[req[s].word_id].box =
                IF req[s].was_correct
                THEN (IF req[s].box = 5 THEN 5 ELSE req[s].box + 1)
                ELSE 1]_vars

\* an item of box 5 was answered correctly (it stayed in 5) and then wrongly
\* (it fell to 1, not to 4)
C1_Witness ==
    /\ 1 \in DOMAIN words
    /\ words[1].box = 1
    /\ words[1].correct_count = 5
    /\ words[1].wrong_count = 1
    /\ out.op = "play_question" /\ out.resp = "redirect_question" /\ out.kind = "bad"

\* the intervals the specification lists, in days
ListedIntervalDays(b) ==
    CASE b = 1 -> 0 [] b = 2 -> 1 [] b = 3 -> 3 [] b = 4 -> 7 [] b = 5 -> 14

\* C2: after every review the item's next-due timestamp is the review time
\* (the timestamp the review records as last seen) plus the interval of the
\* new box.
C2_DueFromReviewTime ==
    [][\A s \in Sessions :
          Reviews(s) =>
             LET new == words'[req[s].word_id]
             IN new.next_due_at =
                   new.last_seen_at + ListedIntervalDays(new.box) * SecondsPerDay]_vars

\* an item of box 3 answered correctly whose next-due timestamp is a second
\* later than its review time plus 7 days
C2_Witness ==
    /\ 1 \in DOMAIN words
    /\ words[1].box = 4
    /\ words[1].correct_count = 3
    /\ words[1].last_seen_at = 0
    /\ words[1].next_due_at = 7 * SecondsPerDay + 1
    /\ out.op = "play_question" /\ out.resp = "redirect_question" /\ out.kind = "ok"

\* C3: whatever was created, edited, given a translation, deleted or
\* answered, in whatever order and by whichever session, every stored item
\* has a box in 1..5 and a next-due timestamp that is not null.
C3_BoxAndDue ==
    \A w \in DOMAIN words : words[w].box \in 1..5 /\ words[w].next_due_at # NULL

\* a second item was created, and an item of box 5 was answered correctly
C3_Witness ==
    /\ 2 \in DOMAIN words
    /\ words[2].box = 1
    /\ 1 \in DOMAIN words
    /\ words[1].box = 5
    /\ words[1].correct_count = 5

\* C4: a review of an existing item adds 1 to exactly one counter, the
\* correct counter when the verdict is correct and the wrong counter when
\* it is not, leaves the other counter alone, and sets the last-seen and
\* the updated timestamp to the review time.
C4_CountersAndTimestamps ==
    [][\A s \in Sessions :
          Reviews(s) =>
             LET old == words[req[s].word_id]
                 new == words'[req[s].word_id]
             IN /\ new.correct_count =
                      old.correct_count + (IF req[s].was_correct THEN 1 ELSE 0)
                /\ new.wrong_count =
                      old.wrong_count + (IF req[s].was_correct THEN 0 ELSE 1)
                /\ new.last_seen_at = now
                /\ new.updated_at = now]_vars

\* an item is answered wrongly at second 1, after a review at second 0
\* during which the clock moved on
C4_Witness ==
    /\ 1 \in DOMAIN words
    /\ words[1].wrong_count = 1
    /\ words[1].last_seen_at = 1
    /\ words[1].updated_at = 1
    /\ out.op = "play_question" /\ out.resp = "redirect_question"
    /\ out.kind \in {"bad", "warn"}

\* C5: reviews of one item are serialized: no session writes a box that it
\* computed from a box value the item no longer has.
C5_NoStaleWrite ==
    [][\A s \in Sessions :
          Reviews(s) => req[s].box = words[req[s].word_id].box]_vars

\* a lost update: an item of box 1 has two correct answers on record and is
\* in box 2, where either order of the two reviews leaves it in box 3
C5_Witness ==
    /\ 1 \in DOMAIN words
    /\ words[1].correct_count = 2
    /\ words[1].wrong_count = 0
    /\ words[1].box = 2

(***************************************************************************)
(* Properties of the grader.                                               *)
(***************************************************************************)
\* the normalisation is_close_enough applies for a language
Normalized(s, lang) == IF lang = "de" THEN de_normalize(s) ELSE tr_normalize(s)

\* what is_close_enough says of the answer under grading and candidate k
CloseOf(k) == is_close_enough(Strip(gUser), gCands[k], gLang)

\* C6: when the normalized answer is not empty and equals the normalized
\* candidate, the grader accepts with confidence exactly 1.0, whatever the
\* length, 1 to 3 included.
C6_ExactAccepts ==
    gRes.kind = "close" =>
       LET u == Normalized(gUser, gLang)
           c == Normalized(gCands[gRes.k], gLang)
       IN (u # <<>> /\ u = c) => (gRes.ok /\ RatEQ(gRes.sim, One))

\* an answer of two characters, typed differently from the candidate,
\* that equals it once normalized
C6_Witness ==
    /\ gRes.kind = "close"
    /\ gUser # gCands[gRes.k]
    /\ Normalized(gUser, gLang) = Normalized(gCands[gRes.k], gLang)
    /\ Len(Normalized(gUser, gLang)) = 2
    /\ gRes.ok

\* C7: for a normalized answer u that is not empty and a normalized
\* candidate c other than u, the candidate is accepted exactly when u and c
\* both have more than 3 characters and similarity(u, c) >= 0.88.
C7_FuzzyRule ==
    gRes.kind = "close" =>
       LET u == Normalized(gUser, gLang)
           c == Normalized(gCands[gRes.k], gLang)
       IN (u # <<>> /\ u # c) =>
             (gRes.ok <=> /\ Len(u) > 3
                          /\ Len(c) > 3
                          /\ RatGE(similarity(u, c), [n |-> 88, d |-> 100]))

\* a candidate accepted on similarity: 8/9 for gehn against gehen
C7_Witness ==
    /\ gRes.kind = "close"
    /\ gRes.ok
    /\ Normalized(gUser, gLang) # Normalized(gCands[gRes.k], gLang)
    /\ RatEQ(gRes.sim, [n |-> 8, d |-> 9])

\* the highest similarity of the candidates, and the first that has it
MaxSimAt(k) == \A j \in 1..Len(gCands) : RatGE(CloseOf(k).sim, CloseOf(j).sim)
FirstMax == CHOOSE k \in 1..Len(gCands) :
               MaxSimAt(k) /\ \A j \in 1..(k - 1) : ~MaxSimAt(j)

\* C8 as claimed: when no candidate is accepted, the confidence is the
\* highest similarity of all the candidates and the candidate reported with
\* it is the first that has this similarity.
C8_BestOfAll ==
    (gRes.kind = "grade" /\ ~gRes.matched /\ gCands # <<>>) =>
       /\ RatEQ(gRes.best_sim, CloseOf(FirstMax).sim)
       /\ gRes.best_target = <<gCands[FirstMax]>>

\* C8 as the code has it: when no candidate is accepted, the confidence is
\* the highest similarity of all the candidates, 0.0 when there is none;
\* when it is above 0 the candidate kept with it is the first that has this
\* similarity, and when it is 0 no candidate is kept.
C8_BestAboveZero ==
    (gRes.kind = "grade" /\ ~gRes.matched) =>
       IF gCands = <<>> \/ ~RatGT(CloseOf(FirstMax).sim, Zero)
       THEN RatEQ(gRes.best_sim, Zero) /\ gRes.best_target = <<>>
       ELSE /\ RatEQ(gRes.best_sim, CloseOf(FirstMax).sim)
            /\ gRes.best_target = <<gCands[FirstMax]>>

\* no candidate accepted, and the second is more similar than the first
C8_Witness ==
    /\ gRes.kind = "grade"
    /\ ~gRes.matched
    /\ Len(gCands) = 2
    /\ RatGT(CloseOf(1).sim, Zero)
    /\ RatGT(CloseOf(2).sim, CloseOf(1).sim)
    /\ gRes.best_target = <<gCands[2]>>

\* the first candidate is_close_enough accepts
Accepts(k) == CloseOf(k).ok
FirstAccepted == CHOOSE k \in 1..Len(gCands) :
                    Accepts(k) /\ \A j \in 1..(k - 1) : ~Accepts(j)

\* C9: when some candidate is acceptable the loop accepts the first such
\* candidate: the target is that candidate, the confidence is its similarity
\* (1.0 when exact), and the match is exact exactly when the normalized
\* answer equals the normalized target.
C9_FirstAccepted ==
    (gRes.kind = "grade" /\ \E k \in 1..Len(gCands) : Accepts(k)) =>
       /\ gRes.matched
       /\ gRes.best_target = <<gCands[FirstAccepted]>>
       /\ RatEQ(gRes.best_sim, CloseOf(FirstAccepted).sim)
       /\ gRes.exact <=> (Normalized(Strip(gUser), gLang)
                             = Normalized(gCands[FirstAccepted], gLang))
       /\ gRes.exact => RatEQ(gRes.best_sim, One)

\* the second candidate is accepted on similarity after a first that is
\* somewhat similar and not accepted
C9_Witness ==
    /\ gRes.kind = "grade"
    /\ gRes.matched
    /\ ~gRes.exact
    /\ Len(gCands) = 2
    /\ RatGT(CloseOf(1).sim, Zero)
    /\ ~Accepts(1)
    /\ gRes.best_target = <<gCands[2]>>

\* C10: an answer that is empty or only whitespace is a pass, whatever the
\* candidate list: the feedback kind is "warn" and not the "bad" of a wrong
\* answer, the item (if it is still stored) goes to box 1 with its wrong
\* counter one higher, the score stays and the index advances by 1.
C10_BlankIsPass ==
    [][\A s \in Sessions :
          Submits(s) =>
             IF Strip(req[s].answer) = <<>>
             THEN /\ game'[s].last_feedback = "warn"
                  /\ out'.kind = "warn"
                  /\ game'[s].score = game[s].score
                  /\ game'[s].idx = game[s].idx + 1
                  /\ Reviews(s) =>
                        LET old == words[req[s].word_id]
                            new == words'[req[s].word_id]
                        IN /\ new.box = 1
                           /\ new.wrong_count = old.wrong_count + 1
                           /\ new.correct_count = old.correct_count
             ELSE game'[s].last_feedback \in {"ok", "bad"}]_vars

\* a pass on an item of box 5 that has no translation to compare with
C10_Witness ==
    /\ out.op = "play_question" /\ out.resp = "redirect_question"
    /\ out.kind = "warn"
    /\ out.dir = "de->tr"
    /\ translations = <<>>
    /\ 1 \in DOMAIN words
    /\ words[1].box = 1
    /\ words[1].correct_count = 4
    /\ words[1].wrong_count = 1
    /\ game[out.s].idx = 1
    /\ game[out.s].score = 0

(***************************************************************************)
(* Properties of the review session.                                       *)
(***************************************************************************)
\* session s's POST has read the game, the word and the form and has graded
Grades(s) == req[s].pc = "idle" /\ req'[s].pc = "post"

\* C11: a submission of an answer that is not blank is graded first, on the
\* current item of the session; then the scheduler updates that item, and
\* no other, once and with the grader's verdict; and with that update the
\* index goes up by 1 and the score by 1 exactly when the grader accepted.
C11_GradeUpdateAdvance ==
    [][\A s \in Sessions :
          /\ (Grades(s) /\ Strip(req'[s].answer) # <<>>) =>
                /\ req'[s].word_id = game[s].queue[game[s].idx + 1]
                /\ req'[s].was_correct =
                      GradeLoop(Strip(req'[s].answer),
                                CorrectList(req'[s].dir, get_current_word(s)[1]),
                                AnswerLang(req'[s].dir)).matched
                /\ words' = words
                /\ game' = game
          /\ (Submits(s) /\ Strip(req[s].answer) # <<>>) =>
                /\ game'[s].idx = game[s].idx + 1
                /\ game'[s].score =
                      game[s].score + (IF req[s].was_correct THEN 1 ELSE 0)
                /\ DOMAIN words' = DOMAIN words
                /\ \A w \in DOMAIN words :
                      IF w = req[s].word_id
                      THEN /\ words'[w].correct_count = words[w].correct_count
                                + (IF req[s].was_correct THEN 1 ELSE 0)
                           /\ words'[w].wrong_count = words[w].wrong_count
                                + (IF req[s].was_correct THEN 0 ELSE 1)
                      ELSE words'[w] = words[w]]_vars

\* an accepted answer on a second item: the score and the index are 1, the
\* item is one box up and the first item is as it was created
C11_Witness ==
    /\ out.op = "play_question" /\ out.resp = "redirect_question"
    /\ out.kind = "ok"
    /\ game[out.s].idx = 1
    /\ game[out.s].score = 1
    /\ DOMAIN words = {1, 2}
    /\ words[2].correct_count = 1
    /\ words[2].box = 2
    /\ words[1].last_seen_at = NULL

\* session s's POST of play_setup is answered: the event that leaves the
\* answer of that handler, with the clock and the requests in flight as
\* they were
Starts(s) ==
    /\ out'.op = "play_setup" /\ out'.s = s /\ nops' = nops + 1
    /\ UNCHANGED <<req, now>>

\* C12: a start gives the session index 0, score 0, no last feedback and a
\* total equal to the length of its queue, whatever the session held
\* before; and while the run lasts no other request changes its queue or
\* its total.
C12_FreshStartFixedQueue ==
    [][\A s \in Sessions :
          /\ Starts(s) =>
                /\ game'[s].active
                /\ game'[s].idx = 0
                /\ game'[s].score = 0
                /\ game'[s].last_feedback = "None"
                /\ game'[s].total = Len(game'[s].queue)
          /\ (game[s].active /\ game'[s].active /\ ~Starts(s)) =>
                /\ game'[s].queue = game[s].queue
                /\ game'[s].total = game[s].total]_vars

\* a start over a run in which the session has answered: the other session
\* never played, so the wrong answer the item counts is this session's
C12_Witness ==
    /\ out.op = "play_setup"
    /\ game[out.s].active /\ game[out.s].idx = 0 /\ game[out.s].score = 0
    /\ game[out.s].queue = <<1>>
    /\ \A s \in Sessions \ {out.s} : ~game[s].active
    /\ words[1].wrong_count = 1

\* the count bound of a start whose form field is n
CountBound(n) ==
    IF ~n.num THEN 15 ELSE IF n.v < 1 THEN 1 ELSE IF n.v > 100 THEN 100 ELSE n.v

\* the items due at time t
DueAt(t) == {w \in DOMAIN words : words[w].next_due_at <= t}

\* C13: the queue of a start holds items of the store, each at most once.
\* For the due pool they are items due at or before the time of the start,
\* in ascending order of due date, as many as the count bound allows and
\* there are due items; for the random pool, as many as the count bound
\* allows and there are items.
C13_QueueContents ==
    [][\A s \in Sessions :
          Starts(s) =>
             LET q    == game'[s].queue
                 pool == IF game'[s].pool = "due" THEN DueAt(now) ELSE DOMAIN words
             IN /\ \A i \in 1..Len(q) : q[i] \in pool
                /\ \A i, j \in 1..Len(q) : i # j => q[i] # q[j]
                /\ game'[s].pool = "due" =>
                      \A i, j \in 1..Len(q) :
                         i < j => words[q[i]].next_due_at <= words[q[j]].next_due_at
                /\ \A n \in NInputs :
                      \/ Len(q) = Min(CountBound(n), Cardinality(pool))
                      \/ ~PlaySetup(s, game'[s].pool, game'[s].mode, n)]_vars

\* a due queue of two items that fell due on different days
C13_Witness ==
    /\ out.op = "play_setup"
    /\ game[out.s].active /\ game[out.s].pool = "due"
    /\ Len(game[out.s].queue) = 2
    /\ words[game[out.s].queue[1]].next_due_at < words[game[out.s].queue[2]].next_due_at

\* C14: the count passed on to build the queue is the requested number
\* when that lies in 1..100, 1 when it is below 1, 100 when it is above
\* 100, and 15 when the field is not a number; in every case it lies in
\* 1..100.
C14_CountClamped ==
    gRes.kind = "count" =>
       /\ gRes.n_int = CountBound(gRes.n)
       /\ gRes.n_int \in 1..100

\* a request for 101 questions is cut to 100
C14_Witness ==
    /\ gRes.kind = "count"
    /\ gRes.n = Num(101)
    /\ gRes.n_int = 100

\* C15: in a run whose queue is empty every request for a turn is sent on
\* to the end of the run; no question is shown, no answer is graded and
\* no item is updated for the session; and the end of the run reports
\* score 0 of 0 and leaves the session without a run.
C15_EmptyQueueDone ==
    [][\A s \in Sessions :
          (game[s].active /\ game[s].total = 0) =>
             /\ Len(game[s].queue) = 0
             /\ req[s].pc = "idle" /\ req'[s].pc = "idle"
             /\ (out'.op = "play_question" /\ out'.s = s) =>
                   /\ out'.resp = "redirect_done"
                   /\ UNCHANGED <<words, translations, game>>
             /\ (out'.op = "play_done" /\ out'.s = s) =>
                   /\ out'.resp = "done"
                   /\ out'.score = 0 /\ out'.total = 0
                   /\ ~game'[s].active
                   /\ UNCHANGED <<words, translations>>]_vars

\* a run started on the due pool while the one item is not due, sent on by
\* its first turn and ended with 0 of 0; the item was never reviewed
C15_Witness ==
    /\ out.op = "play_done" /\ out.resp = "done"
    /\ out.score = 0 /\ out.total = 0
    /\ ~game[out.s].active
    /\ DOMAIN words = {1}
    /\ words[1].next_due_at > now
    /\ words[1].wrong_count = 0

\* session s's GET of play_done is answered with the end of its run
Finishes(s) ==
    game[s].active /\ out'.op = "play_done" /\ out'.s = s

\* C16: a request to end the run, at any index and with any number of
\* items left, ends it, and leaves every item and every translation of the
\* store as it was.
C16_FinishEarlyChangesNoItem ==
    [][\A s \in Sessions :
          Finishes(s) =>
             /\ out'.resp = "done"
             /\ ~game'[s].active
             /\ UNCHANGED <<words, translations>>]_vars

\* a run of one item ended before any answer: the item is still in box 1,
\* never seen and due
C16_Witness ==
    /\ out.op = "play_done" /\ out.resp = "done"
    /\ out.total = 1 /\ out.score = 0
    /\ ~game[out.s].active
    /\ DOMAIN words = {1}
    /\ words[1] = InitRow(1)

\* C17: the end of a run reports the score the session has accumulated,
\* out of the total fixed at the start, which is the length of the queue,
\* and leaves the session with no run: no queue, index or score. A
\* session with no run is sent to the setup by every request for a turn
\* and for the end of a run, and gets a run only by a start.
C17_DoneReportsAndClears ==
    [][\A s \in Sessions :
          /\ Finishes(s) =>
                /\ out'.resp = "done"
                /\ out'.score = game[s].score
                /\ out'.total = game[s].total
                /\ out'.total = Len(game[s].queue)
                /\ game'[s] = NoGame
          /\ ~game[s].active =>
                /\ (out'.op \in {"play_question", "play_done"} /\ out'.s = s
                       /\ out' # out)
                      => out'.resp = "redirect_setup"
                /\ req'[s].pc = "idle"
                /\ game'[s].active => Starts(s)]_vars

\* after the end of a run in which a wrong answer was given, a request for
\* a turn is sent to the setup
C17_Witness ==
    /\ out.op = "play_question" /\ out.resp = "redirect_setup"
    /\ \A s \in Sessions : game[s] = NoGame
    /\ DOMAIN words = {1}
    /\ words[1].wrong_count = 1

\* C18: a request for a turn is answered with the end of the queue only
\* when the index of the run has reached the length of its queue: an item
\* that is missing at the current position is not the end of the queue.
C18_DoneOnlyAtEndOfQueue ==
    (out.op = "play_question" /\ out.resp = "redirect_done"
       /\ game[out.s].active)
      => game[out.s].idx >= Len(game[out.s].queue)

\* the current item of a run was deleted, and the request for the turn is
\* sent to the end of the run with the queue not exhausted
C18_Witness ==
    /\ out.op = "play_question" /\ out.resp = "redirect_done"
    /\ game[out.s].active
    /\ game[out.s].idx < Len(game[out.s].queue)
    /\ game[out.s].queue[game[out.s].idx + 1] \notin DOMAIN words

(***************************************************************************)
(* Properties of the store.                                                *)
(***************************************************************************)
\* C19: no item has two translations whose texts are equal once trimmed,
\* lower-cased and with runs of whitespace collapsed.
C19_NormalizedUnique ==
    \A i, j \in 1..Len(translations) :
       (i # j /\ translations[i].word_id = translations[j].word_id)
          => tr_normalize(translations[i].turkish)
               # tr_normalize(translations[j].turkish)

\* an item that holds "da" has been given "Da" as a further translation
\* and holds both; the request reported no error
C19_Witness ==
    /\ out.op = "add_tr" /\ out.ok
    /\ \E i, j \in 1..Len(translations) :
          /\ translations[i].word_id = out.word_id
          /\ translations[j].word_id = out.word_id
          /\ translations[i].turkish = da
          /\ translations[j].turkish = <<"D", "a">>

\* a term that is empty once trimmed
BlankTerm(g) == \A i \in 1..Len(g) : IsSpace(g[i])

\* translation input that holds no translation: separators and blanks only
NoTranslation(t) == \A i \in 1..Len(t) : IsSep(t[i]) \/ IsSpace(t[i])

\* the messages of the three failures
TermError == {"Almanca bos olamaz."}
TranslationError ==
    {"En az bir Turkce karsilik gir.", "En az bir Turkce karsilik gerekli."}
NotFoundError == {"Kelime bulunamadi."}

\* C20: a create or an edit whose term is empty once trimmed, or whose
\* translation input holds no translation, and an edit of an item that
\* does not exist, fail with the message of that failure and leave the
\* store as it was: no item and no translation is inserted, changed or
\* deleted.
C20_RejectedWriteChangesNothing ==
    [][(nops' = nops + 1 /\ UNCHANGED <<req, now>>) =>
          /\ out'.op = "add" =>
                \A g \in GermanInputs, t \in TurkishInputs :
                   ((BlankTerm(g) \/ NoTranslation(t)) /\ Add(g, t, 0)) =>
                      /\ ~out'.ok
                      /\ out'.error \in (IF BlankTerm(g) THEN TermError
                                          ELSE TranslationError)
                      /\ UNCHANGED <<words, translations, nextId>>
          /\ out'.op = "edit" =>
                \A w \in WordIdInputs, g \in GermanInputs, t \in TurkishInputs :
                   ((BlankTerm(g) \/ NoTranslation(t) \/ w \notin DOMAIN words)
                      /\ Edit(w, g, t)) =>
                      /\ ~out'.ok
                      /\ out'.error \in (IF w \notin DOMAIN words THEN NotFoundError
                                          ELSE IF BlankTerm(g) THEN TermError
                                          ELSE TranslationError)
                      /\ UNCHANGED <<words, translations, nextId>>]_vars

\* an edit of an item with a translation field of separators only has
\* failed, and the item still has its translation
C20_Witness ==
    /\ out.op = "edit" /\ ~out.ok
    /\ out.error \in TranslationError
    /\ 1 \in DOMAIN words
    /\ get_translations(translations, 1) = <<da>>

\* C21: every stored translation belongs to an item of the store: the
\* translations of a deleted item are gone with it, and a translation
\* added for an identifier that names no item is not stored.
C21_TranslationsHaveItem ==
    \A k \in 1..Len(translations) : translations[k].word_id \in DOMAIN words

\* the one item, which had a translation, was deleted, and a translation
\* was then added for its identifier: the store holds no translation
C21_Witness ==
    /\ out.op = "add_tr"
    /\ out.word_id = 1
    /\ 1 \notin DOMAIN words
    /\ translations = <<>>

(***************************************************************************)
(* Properties of the similarity and of the parser.                         *)
(***************************************************************************)
\* C22: the similarity of a and b is the similarity of b and a, and the
\* similarity of a text that is not empty with itself is 1.
C22_SymmetricReflexive ==
    gRes.kind = "sim" =>
       /\ RatEQ(gRes.ab, gRes.ba)
       /\ gUser # <<>> => RatEQ(gRes.aa, One)

\* "ada" against "dea" is 1/3, "dea" against "ada" is 2/3
C22_Witness ==
    /\ gRes.kind = "sim"
    /\ gUser = <<"a", "d", "a">>
    /\ gCands = << <<"d", "e", "a">> >>
    /\ RatEQ(gRes.ab, [n |-> 1, d |-> 3])
    /\ RatEQ(gRes.ba, [n |-> 2, d |-> 3])

\* the positions of raw at which a piece starts: a character that is no
\* separator, at the start or behind a separator
PieceStarts(raw) ==
    {i \in 1..Len(raw) : ~IsSep(raw[i]) /\ (i = 1 \/ IsSep(raw[i - 1]))}

\* the piece starting at i, up to the next separator or the end
PieceAt(raw, i) ==
    SubSeq(raw, i,
           CHOOSE e \in i..Len(raw) :
              /\ \A k \in i..e : ~IsSep(raw[k])
              /\ e = Len(raw) \/ IsSep(raw[e + 1]))

\* a text without the blanks at its ends
Trimmed(p) ==
    LET inked == {i \in 1..Len(p) : ~IsSpace(p[i])}
    IN IF inked = {} THEN <<>>
       ELSE SubSeq(p, CHOOSE i \in inked : \A k \in inked : i <= k,
                      CHOOSE i \in inked : \A k \in inked : k <= i)

\* the starts of the pieces that are not blank, and the k-th of them
InkedStarts(raw) == {i \in PieceStarts(raw) : Trimmed(PieceAt(raw, i)) # <<>>}

NthStart(S, k) == CHOOSE i \in S : Cardinality({j \in S : j < i}) = k - 1

\* the starts of the pieces that no earlier piece equals in normalized form
FirstSeen(raw) ==
    {i \in InkedStarts(raw) :
        \A j \in InkedStarts(raw) :
           j < i => tr_normalize(PieceAt(raw, j)) # tr_normalize(PieceAt(raw, i))}

\* C23: the result of parsing holds, in the order of the input and as
\* typed but trimmed, the pieces between runs of ';', ',' and '/' that
\* are not blank and that no earlier piece equals once lower-cased and
\* with whitespace collapsed.
C23_ParsedPieces ==
    gRes.kind = "parse" =>
       /\ Len(gRes.out) = Cardinality(FirstSeen(gUser))
       /\ \A k \in 1..Len(gRes.out) :
             gRes.out[k] = Trimmed(PieceAt(gUser, NthStart(FirstSeen(gUser), k)))

\* 'elma, elma agaci; elma' gives 'elma' and 'elma agaci'
C23_Witness ==
    /\ gRes.kind = "parse"
    /\ gUser = ElmaField
    /\ gRes.out = << <<"e","l","m","a">>,
                     <<"e","l","m","a"," ","a",GBreve,"a","c",DotlessI>> >>

(***************************************************************************)
(* Properties of the turns of a run.                                       *)
(***************************************************************************)
\* the last answer to a request is the question page shown to session s
Shown(s) == out.op = "play_question" /\ out.s = s /\ out.resp = "page"

\* C24: the answer a session submits to the question it was shown is
\* graded in the direction of that question: against the translations of
\* the item when the term was shown, against the term when a translation
\* was shown.
C24_GradedAsShown ==
    [][\A s \in Sessions :
          (Grades(s) /\ Shown(s)) =>
             /\ req'[s].dir = out.dir
             /\ req'[s].was_correct =
                   Verdict(req'[s].answer,
                           CorrectList(out.dir, get_current_word(s)[1]),
                           AnswerLang(out.dir)).was_correct]_vars

\* a mixed run showed the term "gehen"; the answer "da", its translation,
\* was graded against the term and found wrong
C24_Witness ==
    \E s \in Sessions :
       /\ Shown(s) /\ out.dir = "de->tr"
       /\ game[s].active /\ game[s].mode = "mixed"
       /\ req[s].pc = "post"
       /\ req[s].dir = "tr->de"
       /\ req[s].answer = da
       /\ req[s].word_id \in DOMAIN words
       /\ get_translations(translations, req[s].word_id) = <<da>>
       /\ ~req[s].was_correct

\* the fields of a game but index, score and last feedback
RunFields == {"active", "mode", "pool", "queue", "total"}

\* the fields of an item the scheduler does not own
ItemFields == {"german"}

C26_ScoreIndexTotal ==
    [][\A s \in Sessions :
          /\ game'[s].active =>
                /\ 0 <= game'[s].score
                /\ game'[s].score <= game'[s].idx
                /\ game'[s].idx <= game'[s].total
                /\ game'[s].total = Len(game'[s].queue)
          /\ Starts(s) => game'[s].idx = 0 /\ game'[s].score = 0
          /\ (game[s].active /\ game'[s].active /\ ~Starts(s)) =>
                IF Submits(s)
                THEN /\ game'[s].idx = game[s].idx + 1
                     /\ game'[s].score =
                           game[s].score + (IF req[s].kind = "ok" THEN 1 ELSE 0)
                ELSE /\ game'[s].idx = game[s].idx
                     /\ game'[s].score = game[s].score]_vars

\* a run of two items after one accepted answer: score 1, index 1, total 2
C26_Witness ==
    \E s \in Sessions :
       /\ game[s].active
       /\ game[s].score = 1 /\ game[s].idx = 1 /\ game[s].total = 2
       /\ game[s].last_feedback = "ok"

\* the run of session s has an item left to ask
InProgress(s) ==
    game[s].active /\ game[s].idx < Len(game[s].queue)

\* the run of session s has asked its whole queue
AtEnd(s) ==
    game[s].active /\ game[s].idx >= Len(game[s].queue)

\* a request of play_question by session s is answered without an answer
\* being read
Turns(s) ==
    /\ req[s].pc = "idle" /\ req'[s].pc = "idle"
    /\ out' # out
    /\ out'.op = "play_question" /\ out'.s = s

\* C27: a session goes from no run to a run in progress to done. An answer
\* is read and submitted only while the index is below the length L of the
\* queue and moves the index by one, so a run takes at most L answers;
\* within a run the queue is fixed and the index stays or grows by one;
\* at index L the next turn is sent to done and changes nothing; a run is
\* left only through the done page; and a session that is at the end of
\* its queue or has no run gets an item to ask only by a new start.
C27_RunTerminates ==
    [][\A s \in Sessions :
          /\ Grades(s) => InProgress(s)
          /\ Submits(s) =>
                /\ InProgress(s)
                /\ game'[s].idx = game[s].idx + 1
          /\ (game[s].active /\ game'[s].active /\ ~Starts(s)) =>
                /\ game'[s].queue = game[s].queue
                /\ game'[s].idx \in {game[s].idx, game[s].idx + 1}
          /\ (AtEnd(s) /\ Turns(s)) =>
                /\ out'.resp = "redirect_done"
                /\ UNCHANGED <<words, translations, game>>
          /\ (game[s].active /\ ~game'[s].active) =>
                /\ out'.op = "play_done" /\ out'.s = s
                /\ out'.resp = "done"
          /\ (~InProgress(s) /\ InProgress(s)') => Starts(s)]_vars

\* a run of one item whose answer was submitted: the next turn was sent
\* to done, the run still at index 1 of 1
C27_Witness ==
    /\ out.op = "play_question" /\ out.resp = "redirect_done"
    /\ game[out.s].active
    /\ game[out.s].total = 1 /\ game[out.s].idx = 1
    /\ game[out.s].last_feedback # "None"

====
